---- MODULE Spec2Model ----
(***************************************************************************)
(* RecallBricks API: the context retrieval pipeline (POST /context), the   *)
(* memories CRUD and vector-search routes, and the MCP tools, as a state   *)
(* machine over the memories table.                                        *)
(*                                                                         *)
(* Text is a sequence of one-character strings, so that lower-casing,      *)
(* punctuation stripping, splitting and substring matching are computed    *)
(* as the JavaScript code computes them.                                   *)
(***************************************************************************)
EXTENDS Integers, Sequences, FiniteSets, TLC

(***************************************************************************)
(* Characters and texts                                                    *)
(***************************************************************************)
LowerLetters ==
    <<"a","b","c","d","e","f","g","h","i","j","k","l","m",
      "n","o","p","q","r","s","t","u","v","w","x","y","z">>

UpperLetters ==
    <<"A","B","C","D","E","F","G","H","I","J","K","L","M",
      "N","O","P","Q","R","S","T","U","V","W","X","Y","Z">>

DigitChars == {"0","1","2","3","4","5","6","7","8","9"}

Range(s) == { s[i] : i \in DOMAIN s }

\* \w of the regular expressions: [A-Za-z0-9_]
IsWordChar(c) == c \in Range(LowerLetters) \cup Range(UpperLetters) \cup DigitChars \cup {"_"}

\* \s of the regular expressions (the white space the model's texts use)
IsSpace(c) == c \in {" ", "\t", "\n"}

LowerChar(c) ==
    IF \E i \in DOMAIN UpperLetters : UpperLetters[i] = c
    THEN LowerLetters[CHOOSE i \in DOMAIN UpperLetters : UpperLetters[i] = c]
    ELSE c

\* String.prototype.toLowerCase
toLowerCase(s) == [i \in DOMAIN s |-> LowerChar(s[i])]

\* .replace(/[^\w\s]/g, ' ')
replaceNonWord(s) == [i \in DOMAIN s |-> IF IsWordChar(s[i]) \/ IsSpace(s[i]) THEN s[i] ELSE " "]

\* .split(/\s+/): a run of white space is one separator; a leading or a
\* trailing run leaves an empty first or last token, and "" splits to [""].
RECURSIVE splitFrom(_, _, _, _)
splitFrom(s, i, cur, inRun) ==
    IF i > Len(s) THEN <<cur>>
    ELSE IF IsSpace(s[i])
         THEN IF inRun THEN splitFrom(s, i + 1, cur, TRUE)
              ELSE <<cur>> \o splitFrom(s, i + 1, <<>>, TRUE)
         ELSE splitFrom(s, i + 1, Append(cur, s[i]), FALSE)

split(s) == splitFrom(s, 1, <<>>, FALSE)

Min(a, b) == IF a < b THEN a ELSE b
Max(a, b) == IF a > b THEN a ELSE b

\* Array.prototype.slice(0, n)
slice(s, n) == SubSeq(s, 1, Min(n, Len(s)))

\* Array.prototype.slice(-n)
sliceLast(s, n) == SubSeq(s, Max(1, Len(s) - n + 1), Len(s))

\* Array.prototype.join(sep)
RECURSIVE join(_, _)
join(parts, sep) ==
    IF Len(parts) = 0 THEN <<>>
    ELSE IF Len(parts) = 1 THEN parts[1]
    ELSE parts[1] \o sep \o join(Tail(parts), sep)

\* String.prototype.includes
includes(text, part) ==
    \E i \in 1..(Len(text) - Len(part) + 1) : SubSeq(text, i, i + Len(part) - 1) = part

(***************************************************************************)
(* Keyword extraction of POST /context                                     *)
(***************************************************************************)
stopWords == {
    <<"t","h","e">>, <<"a">>, <<"a","n">>, <<"a","n","d">>, <<"o","r">>, <<"b","u","t">>,
    <<"i","n">>, <<"o","n">>, <<"a","t">>, <<"t","o">>, <<"f","o","r">>, <<"o","f">>,
    <<"w","i","t","h">>, <<"b","y">>, <<"f","r","o","m">>, <<"i","s">>, <<"w","a","s">>,
    <<"a","r","e">>, <<"w","e","r","e">>, <<"b","e","e","n">>, <<"b","e">>,
    <<"h","a","v","e">>, <<"h","a","s">>, <<"h","a","d">>, <<"d","o">>, <<"d","o","e","s">>,
    <<"d","i","d">>, <<"w","i","l","l">>, <<"w","o","u","l","d">>, <<"c","o","u","l","d">>,
    <<"s","h","o","u","l","d">>, <<"c","a","n">>, <<"m","a","y">>, <<"m","i","g","h","t">>,
    <<"w","h","a","t">>, <<"w","h","e","n">>, <<"w","h","e","r","e">>, <<"w","h","o">>,
    <<"h","o","w">>, <<"w","h","y">>, <<"t","h","i","s">>, <<"t","h","a","t">>,
    <<"t","h","e","s","e">>, <<"t","h","o","s","e">> }

\* the shortest token the filter keeps is one character longer than this
MinWordLength == 2

\* .slice(0, 10) of the query's tokens
MaxQueryKeywords == 10

\* .slice(0, 5) of the history's tokens
MaxHistoryKeywords == 5

\* conversation_history.slice(-3)
RecentTurns == 3

\* the filter without its stop-word test
keepWordAnyLong(word) == Len(word) > MinWordLength

keepWord(word) == Len(word) > MinWordLength /\ word \notin stopWords

\* toLowerCase / replace / split / filter, before the slice
tokens(text) == SelectSeq(split(replaceNonWord(toLowerCase(text))), keepWord)

queryKeywords(query) == slice(tokens(query), MaxQueryKeywords)

recentContext(history) == join(sliceLast(history, RecentTurns), <<" ">>)

historyKeywords(history) == slice(tokens(recentContext(history)), MaxHistoryKeywords)


(***************************************************************************)
(* JavaScript values of the request fields                                 *)
(***************************************************************************)
\* a field holding text: undefined, a string (a sequence of characters), or
\* an array (a repeated query parameter, a JSON array in a body)
UndefinedText == [t |-> "undefined", s |-> <<>>]
Text(s) == [t |-> "string", s |-> s]
ArrayText == [t |-> "array", s |-> <<>>]

\* !v for such a field: undefined and '' are falsy, an array is truthy
FalsyText(v) == v.t = "undefined" \/ (v.t = "string" /\ v.s = <<>>)

\* a field holding an identifier or a flag: undefined, a string or a boolean
UndefinedVal == [t |-> "undefined", s |-> "", b |-> FALSE]
StrVal(x) == [t |-> "string", s |-> x, b |-> FALSE]
BoolVal(x) == [t |-> "boolean", s |-> "", b |-> x]

FalsyVal(v) == v.t = "undefined" \/ (v.t = "string" /\ v.s = "") \/ (v.t = "boolean" /\ ~v.b)

\* conversation_history?: string[]
NoHistory == [t |-> "undefined", items |-> <<>>]
History(items) == [t |-> "array", items |-> items]

(***************************************************************************)
(* The state                                                               *)
(***************************************************************************)
VARIABLES
    memories,   \* the rows of the store's memories table
    now,        \* the clock, in units of ten days (0.1 * daysOld is an integer)
    req,        \* the requests being served, by slot
    api_keys,   \* the rows of the store's api_keys table
    auth,       \* the run of authenticateApiKey for a request
    proc        \* the process: server, isShuttingDown, timers, exit code

vars == <<memories, now, req, api_keys, auth, proc>>

\* what the route handlers and the MCP tools do not touch
outside == <<api_keys, auth, proc>>

\* req.user of the mock-user middleware
MockUserId == "00000000-0000-0000-0000-000000000001"

OtherUserId == "00000000-0000-0000-0000-000000000002"

Users == {MockUserId, OtherUserId}

NoUser == ""

Slots == {"r1"}

\* the ids the store hands out and the MCP caller may name
MaxMemories == 2
MemIds == 1..MaxMemories

\* the clock stops here
MaxNow == 1

\* limit || 10
DefaultLimit == 10

\* answers of a failing upstream call: error.message, possibly empty
UpstreamMessages == {"", "upstream unavailable"}

NoResponse ==
    [status |-> 0, error |-> "", message |-> "", ok |-> FALSE,
     keywords_extracted |-> <<>>, memories |-> <<>>, count |-> 0,
     crossLLM |-> UndefinedVal, llm |-> "", conversation_context |-> FALSE,
     context |-> <<>>]

\* a slot before its first request. Besides the request's fields and the
\* handler's locals, a slot records what the handler did: its calls of the
\* store, the embedding and the extraction service, the responses it sent,
\* the rows the store returned to it (read), the rows it changed or deleted,
\* as they were before (touched), the rows it inserted (created), the number
\* of rows its id filter matched (matched), and which upstream call failed.
IdleRequest ==
    [route |-> "", pc |-> "idle", creds |-> "none", user |-> NoUser,
     query |-> UndefinedText, llm |-> UndefinedVal, limit |-> 0, offset |-> 0,
     project_id |-> "", history |-> NoHistory, id |-> 0, text |-> UndefinedText,
     source |-> "", keywords |-> <<>>, extracted |-> <<>>,
     storeCalls |-> 0, embedCalls |-> 0, extractCalls |-> 0, sent |-> 0,
     upstream |-> "", failed |-> "", evaluatedAt |-> 0,
     read |-> {}, touched |-> {}, created |-> {}, matched |-> 0,
     res |-> NoResponse]

\* what a client may put in the Authorization / X-API-Key headers
Credentials == {"none", "api-key"}

Free(r) == req[r].pc = "idle"

\* a request as it enters its router: no middleware before the router sets
\* req.user (authenticateApiKey is not mounted)
Incoming(route, creds) ==
    [IdleRequest EXCEPT !.route = route, !.creds = creds]

\* router.use: the mock user when req.user is not set
mockUser(user) == IF user = NoUser THEN MockUserId ELSE user

\* res.status(code).json({error, message}) and the end of the handler
Fail(q, code, error, message) ==
    [q EXCEPT !.pc = "done", !.sent = @ + 1,
              !.res = [NoResponse EXCEPT !.status = code, !.error = error, !.message = message]]

\* message: error.message || fallback
orDefault(message, fallback) == IF message = "" THEN fallback ELSE message

\* the catch block of a route: 500 with the error's message
Caught(q, message, fallback) ==
    Fail([q EXCEPT !.upstream = message], 500, "Internal Server Error", orDefault(message, fallback))

\* if (error) throw error, after a store call: the route's catch block
storeFailed(q, message, fallback) == Caught([q EXCEPT !.failed = "store"], message, fallback)

\* res.status(code).json(body) and the end of the handler
Answer(q, code, body) ==
    [q EXCEPT !.pc = "done", !.sent = @ + 1, !.res = [body EXCEPT !.status = code]]


(***************************************************************************)
(* The store: the memories table behind the Supabase client                *)
(***************************************************************************)
\* the rows a query's equality filters leave: user_id always, project_id,
\* source when given ("" for a filter the request leaves out)
filtered(user, project_id, source) ==
    { m \in memories : /\ m.user_id = user
                       /\ (project_id = "" \/ m.project_id = project_id)
                       /\ (source = "" \/ m.source = source) }

\* an order with ascending left at its default: oldest first
orderAsc(rows) ==
    { data \in [1..Cardinality(rows) -> rows] :
        /\ \A i, j \in DOMAIN data : i # j => data[i] # data[j]
        /\ \A i, j \in DOMAIN data : i < j => data[i].created_at <= data[j].created_at }

\* .order('created_at', { ascending: false }): every order of the rows that
\* is descending in created_at (rows of equal created_at come in any order)
orderDesc(rows) ==
    { data \in [1..Cardinality(rows) -> rows] :
        /\ \A i, j \in DOMAIN data : i # j => data[i] # data[j]
        /\ \A i, j \in DOMAIN data : i < j => data[i].created_at >= data[j].created_at }

\* any order of the rows: match_memories orders by similarity to the query
\* embedding, which the model leaves open
anyOrder(rows) ==
    { data \in [1..Cardinality(rows) -> rows] :
        \A i, j \in DOMAIN data : i # j => data[i] # data[j] }

\* a query without its .limit(n)
unlimited(results, n) == results

\* .limit(n)
limited(results, n) == { slice(data, n) : data \in results }

\* limit || 10 (a limit of 0 stands for a request without limit)
limitOr(limit, default) == IF limit = 0 THEN default ELSE limit

(***************************************************************************)
(* POST /context: relevance score, ranking, cross-LLM signal               *)
(***************************************************************************)
\* score += 10 for a keyword the memory text includes
KeywordPoints == 10

\* Math.max(0, 5 - daysOld * 0.1)
RecencyMax == 5

\* daysOld * 0.1, the clock counting units of ten days
daysOldTenths(created_at, at) == at - created_at

recencyBonus(created_at, at) == Max(0, RecencyMax - daysOldTenths(created_at, at))

\* keywords.forEach: one hit per entry of the keyword list whose text occurs
\* in the lower-cased memory text
keywordHits(keywords, text) ==
    Cardinality({ i \in DOMAIN keywords : includes(toLowerCase(text), keywords[i]) })

relevance_score(memory, keywords, at) ==
    KeywordPoints * keywordHits(keywords, memory.text) + recencyBonus(memory.created_at, at)

\* { ...memory, relevance_score: score }
scoredMemories(data, keywords, at) ==
    [i \in DOMAIN data |-> data[i] @@ ("relevance_score" :> relevance_score(data[i], keywords, at))]

\* a sort that is not stable: m goes before the elements of equal score
insertBeforeEqual(sorted, m) ==
    LET k == Cardinality({ i \in DOMAIN sorted : sorted[i].relevance_score > m.relevance_score })
    IN  SubSeq(sorted, 1, k) \o <<m>> \o SubSeq(sorted, k + 1, Len(sorted))

\* one step of the sort: m goes behind the elements that do not compare
\* after it under (a, b) => b.relevance_score - a.relevance_score
insertByScore(sorted, m) ==
    LET k == Cardinality({ i \in DOMAIN sorted : sorted[i].relevance_score >= m.relevance_score })
    IN  SubSeq(sorted, 1, k) \o <<m>> \o SubSeq(sorted, k + 1, Len(sorted))

RECURSIVE sortFrom(_, _, _)
sortFrom(list, i, sorted) ==
    IF i > Len(list) THEN sorted ELSE sortFrom(list, i + 1, insertByScore(sorted, list[i]))

\* the list as the store returned it, not sorted
sortNothing(list) == list

\* scoredMemories.sort(...), a stable sort
sort(list) == sortFrom(list, 1, <<>>)

\* new Set(scoredMemories.map(m => m.source))
sources(list) == { list[i].source : i \in DOMAIN list }

\* llm && sources.size > 1 && !sources.has(llm): the value of the first
\* falsy operand, or of the last one
crossLLM(llm, list) ==
    IF FalsyVal(llm) THEN llm
    ELSE IF ~(Cardinality(sources(list)) > 1) THEN BoolVal(FALSE)
    ELSE BoolVal(llm.s \notin sources(list))

\* conversation_history && conversation_history.length > 0
hasHistory(history) == history.t = "array" /\ Len(history.items) > 0

\* keywords, after keywords.push(...historyKeywords)
keywords(query, history) ==
    queryKeywords(query) \o (IF hasHistory(history) THEN historyKeywords(history.items) ELSE <<>>)

\* the handler up to "await dbQuery"
ContextPost(r, Creds, Queries, Llms, Limits, Projects, Histories) ==
    /\ Free(r)
    /\ \E creds \in Creds, query \in Queries, llm \in Llms, limit \in Limits,
          project_id \in Projects, history \in Histories :
        LET q == [Incoming("POST /context", creds) EXCEPT
                    !.user = mockUser(NoUser), !.query = query, !.llm = llm,
                    !.limit = limit, !.project_id = project_id, !.history = history]
        IN  req' = [req EXCEPT ![r] =
                IF FalsyText(query)
                THEN Fail(q, 400, "Bad Request", "Query is required.")
                ELSE IF query.t # "string"
                THEN \* query.toLowerCase is not a function
                     Caught(q, "query.toLowerCase is not a function", "Failed to recall context.")
                ELSE [q EXCEPT !.pc = "awaitStore", !.storeCalls = @ + 1,
                               !.keywords = keywords(query.s, history)]]
    /\ UNCHANGED <<memories, now, outside>>

\* res.json of POST /context for the rows the store returned
contextResponse(q, data, at) ==
    LET list == sort(scoredMemories(data, q.keywords, at))
    IN  [NoResponse EXCEPT
            !.status = 200,
            !.keywords_extracted = q.keywords,
            !.memories = slice(list, limitOr(q.limit, DefaultLimit)),
            !.count = Len(list),
            !.crossLLM = crossLLM(q.llm, list),
            !.llm = IF FalsyVal(q.llm) THEN "unknown" ELSE q.llm.s,
            !.conversation_context = (q.history.t # "undefined")]

\* a handler whose keyword list is a variable of the module, shared by the
\* requests in flight: the scoring sees the list of whichever request wrote last
ContextPostReplyShared(r) ==
    /\ req[r].pc = "awaitStore"
    /\ req[r].route = "POST /context"
    /\ \E o \in DOMAIN req, matched \in SUBSET filtered(req[r].user, req[r].project_id, "") :
       \E data \in limited(orderDesc(matched), limitOr(req[r].limit, DefaultLimit)) :
        /\ req[o].route = "POST /context"
        /\ req' = [req EXCEPT ![r] =
                [@ EXCEPT !.pc = "done", !.sent = @ + 1, !.evaluatedAt = now,
                          !.read = Range(data),
                          !.res = contextResponse([req[r] EXCEPT !.keywords = req[o].keywords],
                                                  data, now)]]
    /\ UNCHANGED <<memories, now, outside>>

\* a handler that writes the scores back: the rows it scored are stored with
\* their relevance_score
ContextPostReplyPersisting(r) ==
    /\ req[r].pc = "awaitStore"
    /\ req[r].route = "POST /context"
    /\ \E matched \in SUBSET filtered(req[r].user, req[r].project_id, "") :
       \E data \in limited(orderDesc(matched), limitOr(req[r].limit, DefaultLimit)) :
        /\ req' = [req EXCEPT ![r] =
                [@ EXCEPT !.pc = "done", !.sent = @ + 1, !.evaluatedAt = now,
                          !.read = Range(data),
                          !.res = contextResponse(req[r], data, now)]]
        /\ memories' = (memories \ Range(data))
                          \cup Range(scoredMemories(data, req[r].keywords, now))
    /\ UNCHANGED <<now, outside>>

\* the handler from "await dbQuery" on: the store's error, or the rows the
\* text search matched among the user's (and the project's) rows
ContextPostReply(r) ==
    /\ req[r].pc = "awaitStore"
    /\ req[r].route = "POST /context"
    /\ \/ \E message \in UpstreamMessages :
            req' = [req EXCEPT ![r] = storeFailed(@, message, "Failed to recall context.")]
       \/ \E matched \in SUBSET filtered(req[r].user, req[r].project_id, "") :
          \E data \in limited(orderDesc(matched), limitOr(req[r].limit, DefaultLimit)) :
            req' = [req EXCEPT ![r] =
                [@ EXCEPT !.pc = "done", !.sent = @ + 1, !.evaluatedAt = now,
                          !.read = Range(data),
                          !.res = contextResponse(req[r], data, now)]]
    /\ UNCHANGED <<memories, now, outside>>


\* the response has been sent and the handler has returned: the slot is free
\* for the next request
Close(r) ==
    /\ req[r].pc = "done"
    /\ req' = [req EXCEPT ![r] = IdleRequest]
    /\ UNCHANGED <<memories, now, outside>>

(***************************************************************************)
(* Texts, rows and request inputs of the model                             *)
(***************************************************************************)
TextDarkSql == <<"D","a","r","k"," ","S","Q","L">>
TextCat == <<"c","a","t">>
TextDark == <<"d","a","r","k">>
TextDarkCommaSql == <<"D","a","r","k",","," ","s","q","l","!">>

Row(id, user_id, text, source, project_id, created_at, embedding) ==
    [id |-> id, user_id |-> user_id, text |-> text, source |-> source,
     project_id |-> project_id, created_at |-> created_at, embedding |-> embedding]

\* the embedding of a text, kept as the text it was computed from
embeddingOf(text) == text

Llms == {UndefinedVal, StrVal(""), StrVal("claude"), StrVal("cursor")}

Limits == {0, 1}

(***************************************************************************)
(* POST /context/search and the memories router                            *)
(***************************************************************************)
\* limit || 50 of POST /context/search
DefaultSearchLimit == 50

\* limit = 10 of the vector searches
DefaultMatchCount == 10

\* limit = 100 of GET /memories/context/all
DefaultPageLimit == 100

\* the inputs of the routes: a text field is missing, an array, empty or a text
TextInputs == {UndefinedText, ArrayText, Text(<<>>), Text(TextDark)}

SourceInputs == {"", "claude"}

ProjectInputs == {"", "p1"}

\* the error of .single() for a result that is not exactly one row (PGRST116)
SingleRowMessage == "JSON object requested, multiple (or no) rows returned"

ContextSearch(r) ==
    /\ Free(r)
    /\ \E creds \in Credentials, query \in {UndefinedText, Text(TextDark)}, source \in SourceInputs :
        req' = [req EXCEPT ![r] =
            [Incoming("POST /context/search", creds) EXCEPT
                !.user = mockUser(NoUser), !.query = query, !.source = source,
                !.pc = "awaitStore", !.storeCalls = @ + 1]]
    /\ UNCHANGED <<memories, now, outside>>

ContextSearchReply(r) ==
    /\ req[r].pc = "awaitStore"
    /\ req[r].route = "POST /context/search"
    /\ \/ \E message \in UpstreamMessages :
            req' = [req EXCEPT ![r] = storeFailed(@, message, "Failed to search memories.")]
       \/ \E matched \in (IF FalsyText(req[r].query)
                          THEN {filtered(req[r].user, req[r].project_id, req[r].source)}
                          ELSE SUBSET filtered(req[r].user, req[r].project_id, req[r].source)) :
          \E data \in limited(orderDesc(matched), limitOr(req[r].limit, DefaultSearchLimit)) :
            req' = [req EXCEPT ![r] =
                Answer([@ EXCEPT !.read = Range(data)], 200,
                       [NoResponse EXCEPT !.memories = data, !.count = Len(data)])]
    /\ UNCHANGED <<memories, now, outside>>

\* the catch blocks' fallback messages
fallbackMessage(route) ==
    CASE route = "POST /memories" -> "Failed to create memory."
      [] route = "GET /memories" -> "Failed to retrieve memories."
      [] route \in {"GET /memories/search", "POST /memories/search"} -> "Failed to search memories."
      [] route = "GET /memories/context" -> "Failed to generate context."
      [] route = "GET /memories/context/all" -> "Failed to retrieve all context."
      [] route = "GET /memories/:id" -> "Failed to retrieve memory."
      [] route = "DELETE /memories/:id" -> "Failed to delete memory."
      [] route = "PUT /memories/:id" -> "Failed to update memory."
      [] OTHER -> "Failed."

\* a catch that logs the error and lets the handler go on to the store
generateEmbeddingSwallowed(q, message) ==
    [q EXCEPT !.failed = "embedding", !.upstream = message,
              !.pc = "awaitStore", !.storeCalls = @ + 1]

\* generateEmbedding's catch: the error is logged and thrown again, and the
\* route's catch block answers it
generateEmbeddingFailed(q, message) ==
    Caught([q EXCEPT !.failed = "embedding"], message, fallbackMessage(q.route))

\* the embedding call returns while a handler awaits it; every handler that
\* awaits an embedding calls the store next
EmbeddingReply(r) ==
    /\ req[r].pc = "awaitEmbed"
    /\ \/ \E message \in UpstreamMessages :
            req' = [req EXCEPT ![r] = generateEmbeddingFailed(@, message)]
       \/ req' = [req EXCEPT ![r] = [@ EXCEPT !.pc = "awaitStore", !.storeCalls = @ + 1]]
    /\ UNCHANGED <<memories, now, outside>>

\* POST /memories up to "await extractKeyInfo(text)"
MemoryCreate(r) ==
    /\ Free(r)
    /\ \E creds \in Credentials, text \in {UndefinedText, Text(<<>>), Text(TextDarkSql)},
          source \in SourceInputs :
        LET q == [Incoming("POST /memories", creds) EXCEPT
                    !.user = mockUser(NoUser), !.text = text, !.source = source]
        IN  req' = [req EXCEPT ![r] =
                IF FalsyText(text)
                THEN Fail(q, 400, "Bad Request", "Text is required.")
                ELSE [q EXCEPT !.pc = "awaitExtract", !.extractCalls = @ + 1]]
    /\ UNCHANGED <<memories, now, outside>>

\* what the completion may answer for a text
ExtractedTexts == {TextCat}

\* extractKeyInfo returns the completion's text, or the text itself when the
\* completion is empty or the call fails; generateEmbedding is called next
ExtractReply(r) ==
    /\ req[r].pc = "awaitExtract"
    /\ \E extracted \in ExtractedTexts \cup {req[r].text.s} :
        req' = [req EXCEPT ![r] =
            [@ EXCEPT !.extracted = extracted, !.pc = "awaitEmbed", !.embedCalls = @ + 1]]
    /\ UNCHANGED <<memories, now, outside>>

\* the ids no row has
freeIds == MemIds \ { m.id : m \in memories }

\* the insert of POST /memories and its answer
MemoryCreateReply(r) ==
    /\ req[r].pc = "awaitStore"
    /\ req[r].route = "POST /memories"
    /\ \/ /\ \E message \in UpstreamMessages :
                req' = [req EXCEPT ![r] = storeFailed(@, message, fallbackMessage(@.route))]
          /\ UNCHANGED memories
       \/ /\ freeIds # {}
          /\ LET id == CHOOSE i \in freeIds : \A j \in freeIds : i <= j
                 q == req[r]
                 row == Row(id, q.user, q.extracted,
                            IF q.source = "" THEN "api" ELSE q.source,
                            IF q.project_id = "" THEN "default" ELSE q.project_id,
                            now, embeddingOf(q.extracted))
             IN  /\ memories' = memories \cup {row}
                 /\ req' = [req EXCEPT ![r] =
                        Answer([@ EXCEPT !.created = {row}], 201,
                               [NoResponse EXCEPT !.memories = <<row>>])]
    /\ UNCHANGED <<now, outside>>

\* GET /memories
MemoryList(r) ==
    /\ Free(r)
    /\ \E creds \in Credentials, limit \in Limits, source \in SourceInputs, project_id \in ProjectInputs :
        req' = [req EXCEPT ![r] =
            [Incoming("GET /memories", creds) EXCEPT
                !.user = mockUser(NoUser), !.limit = limit, !.source = source,
                !.project_id = project_id, !.pc = "awaitStore", !.storeCalls = @ + 1]]
    /\ UNCHANGED <<memories, now, outside>>

MemoryListReply(r) ==
    /\ req[r].pc = "awaitStore"
    /\ req[r].route = "GET /memories"
    /\ \/ \E message \in UpstreamMessages :
            req' = [req EXCEPT ![r] = storeFailed(@, message, fallbackMessage(@.route))]
       \/ \E all \in orderDesc(filtered(req[r].user, req[r].project_id, req[r].source)) :
            LET data == IF req[r].limit = 0 THEN all ELSE slice(all, req[r].limit)
            IN  req' = [req EXCEPT ![r] =
                    Answer([@ EXCEPT !.read = Range(data)], 200,
                           [NoResponse EXCEPT !.memories = data, !.count = Len(data)])]
    /\ UNCHANGED <<memories, now, outside>>

\* the validation without its typeof test
invalidQueryFalsy(q) == FalsyText(q)

\* !q || typeof q !== 'string'
invalidQuery(q) == FalsyText(q) \/ q.t # "string"

\* the three vector routes up to "await generateEmbedding(q)"
vectorSearch(r, route, required) ==
    /\ Free(r)
    /\ \E creds \in Credentials, query \in TextInputs, limit \in Limits :
        LET q == [Incoming(route, creds) EXCEPT
                    !.user = mockUser(NoUser), !.query = query, !.limit = limit]
        IN  req' = [req EXCEPT ![r] =
                IF invalidQuery(query)
                THEN Fail(q, 400, "Bad Request", required)
                ELSE [q EXCEPT !.pc = "awaitEmbed", !.embedCalls = @ + 1]]
    /\ UNCHANGED <<memories, now, outside>>

\* GET /memories/search
MemorySearchGet(r) == vectorSearch(r, "GET /memories/search", "Query parameter \"q\" is required.")

\* POST /memories/search
MemorySearchPost(r) == vectorSearch(r, "POST /memories/search", "Query field is required.")

\* GET /memories/context
MemoryContext(r) == vectorSearch(r, "GET /memories/context", "Query parameter \"q\" is required.")

\* supabase.rpc('match_memories', ...): rows of filter_user_id that have an
\* embedding, the ones above the similarity threshold, most similar first, at
\* most match_count
match_memories(filter_user_id, match_count) ==
    UNION { limited(anyOrder(matched), match_count) :
              matched \in SUBSET { m \in memories : m.user_id = filter_user_id /\ m.embedding # <<>> } }

\* memory => memory.text
texts(data) == [i \in DOMAIN data |-> data[i].text]

\* the three vector routes from "await supabase.rpc" on
VectorSearchReply(r) ==
    /\ req[r].pc = "awaitStore"
    /\ req[r].route \in {"GET /memories/search", "POST /memories/search", "GET /memories/context"}
    /\ \/ \E message \in UpstreamMessages :
            req' = [req EXCEPT ![r] = storeFailed(@, message, fallbackMessage(@.route))]
       \/ \E data \in match_memories(req[r].user, limitOr(req[r].limit, DefaultMatchCount)) :
            req' = [req EXCEPT ![r] =
                Answer([@ EXCEPT !.read = Range(data)], 200,
                       IF req[r].route = "GET /memories/context"
                       THEN [NoResponse EXCEPT !.context = texts(data), !.count = Len(data)]
                       ELSE [NoResponse EXCEPT !.memories = data, !.count = Len(data)])]
    /\ UNCHANGED <<memories, now, outside>>

\* the offsets of GET /memories/context/all
Offsets == {0, 1}

\* GET /memories/context/all
MemoryContextAll(r) ==
    /\ Free(r)
    /\ \E creds \in Credentials, limit \in Limits, offset \in Offsets :
        req' = [req EXCEPT ![r] =
            [Incoming("GET /memories/context/all", creds) EXCEPT
                !.user = mockUser(NoUser), !.limit = limit, !.offset = offset,
                !.pc = "awaitStore", !.storeCalls = @ + 1]]
    /\ UNCHANGED <<memories, now, outside>>

\* .range(offset, offset + limit - 1)
range(data, offset, limit) == SubSeq(data, offset + 1, Min(Len(data), offset + limit))

MemoryContextAllReply(r) ==
    /\ req[r].pc = "awaitStore"
    /\ req[r].route = "GET /memories/context/all"
    /\ \/ \E message \in UpstreamMessages :
            req' = [req EXCEPT ![r] = storeFailed(@, message, fallbackMessage(@.route))]
       \/ \E all \in orderDesc(filtered(req[r].user, "", "")) :
            LET data == range(all, req[r].offset, limitOr(req[r].limit, DefaultPageLimit))
            IN  req' = [req EXCEPT ![r] =
                    Answer([@ EXCEPT !.read = Range(data)], 200,
                           [NoResponse EXCEPT !.context = texts(data), !.count = Len(data)])]
    /\ UNCHANGED <<memories, now, outside>>

\* .eq('id', id).eq('user_id', user.id)
byIdOfUser(id, user) == { m \in memories : m.id = id /\ m.user_id = user }

\* GET /memories/:id
MemoryGet(r) ==
    /\ Free(r)
    /\ \E creds \in Credentials, id \in MemIds :
        req' = [req EXCEPT ![r] =
            [Incoming("GET /memories/:id", creds) EXCEPT
                !.user = mockUser(NoUser), !.id = id,
                !.pc = "awaitStore", !.storeCalls = @ + 1]]
    /\ UNCHANGED <<memories, now, outside>>

\* if (error || !data): the store's error, or .single() without its one row
MemoryGetReply(r) ==
    /\ req[r].pc = "awaitStore"
    /\ req[r].route = "GET /memories/:id"
    /\ LET rows == byIdOfUser(req[r].id, req[r].user)
           q == [req[r] EXCEPT !.matched = Cardinality(rows)]
       IN  \/ \E message \in UpstreamMessages :
                req' = [req EXCEPT ![r] =
                    Fail([q EXCEPT !.failed = "store", !.upstream = message],
                         404, "Not Found", "Memory not found.")]
           \/ /\ rows = {}
              /\ req' = [req EXCEPT ![r] = Fail(q, 404, "Not Found", "Memory not found.")]
           \/ \E row \in rows :
                req' = [req EXCEPT ![r] =
                    Answer([q EXCEPT !.read = {row}], 200, [NoResponse EXCEPT !.memories = <<row>>])]
    /\ UNCHANGED <<memories, now, outside>>

\* DELETE /memories/:id
MemoryDelete(r) ==
    /\ Free(r)
    /\ \E creds \in Credentials, id \in MemIds :
        req' = [req EXCEPT ![r] =
            [Incoming("DELETE /memories/:id", creds) EXCEPT
                !.user = mockUser(NoUser), !.id = id,
                !.pc = "awaitStore", !.storeCalls = @ + 1]]
    /\ UNCHANGED <<memories, now, outside>>

\* the delete reports no error when its filters match no row
MemoryDeleteReply(r) ==
    /\ req[r].pc = "awaitStore"
    /\ req[r].route = "DELETE /memories/:id"
    /\ LET rows == byIdOfUser(req[r].id, req[r].user)
       IN  \/ /\ \E message \in UpstreamMessages :
                    req' = [req EXCEPT ![r] = storeFailed(@, message, fallbackMessage(@.route))]
              /\ UNCHANGED memories
           \/ /\ memories' = memories \ rows
              /\ req' = [req EXCEPT ![r] =
                    Answer([@ EXCEPT !.matched = Cardinality(rows), !.touched = rows], 200,
                           [NoResponse EXCEPT !.message = "Memory deleted successfully."])]
    /\ UNCHANGED <<now, outside>>

\* PUT /memories/:id up to its first await: generateEmbedding when the body
\* has a text, the update otherwise. A body with no field at all is left out.
MemoryPut(r) ==
    /\ Free(r)
    /\ \E creds \in Credentials, id \in MemIds, text \in {UndefinedText, Text(TextCat)},
          project_id \in ProjectInputs :
        /\ ~(FalsyText(text) /\ project_id = "")
        /\ LET q == [Incoming("PUT /memories/:id", creds) EXCEPT
                        !.user = mockUser(NoUser), !.id = id, !.text = text,
                        !.project_id = project_id]
           IN  req' = [req EXCEPT ![r] =
                    IF FalsyText(text)
                    THEN [q EXCEPT !.pc = "awaitStore", !.storeCalls = @ + 1]
                    ELSE [q EXCEPT !.pc = "awaitEmbed", !.embedCalls = @ + 1]]
    /\ UNCHANGED <<memories, now, outside>>

\* the row after .update(updates)
updated(m, q) ==
    [m EXCEPT !.text = IF FalsyText(q.text) THEN @ ELSE q.text.s,
              !.embedding = IF FalsyText(q.text) THEN @ ELSE embeddingOf(q.text.s),
              !.project_id = IF q.project_id = "" THEN @ ELSE q.project_id]

\* .update(updates).eq(...).select().single(): without a matching row
\* .single() reports an error, which "if (error) throw error" passes to the
\* catch block before "if (!data)" is reached
MemoryPutReply(r) ==
    /\ req[r].pc = "awaitStore"
    /\ req[r].route = "PUT /memories/:id"
    /\ LET rows == byIdOfUser(req[r].id, req[r].user)
           q == [req[r] EXCEPT !.matched = Cardinality(rows)]
       IN  \/ /\ \E message \in UpstreamMessages :
                    req' = [req EXCEPT ![r] = storeFailed(@, message, fallbackMessage(@.route))]
              /\ UNCHANGED memories
           \/ /\ rows = {}
              /\ req' = [req EXCEPT ![r] = Caught(q, SingleRowMessage, fallbackMessage(q.route))]
              /\ UNCHANGED memories
           \/ \E row \in rows :
                /\ memories' = (memories \ {row}) \cup {updated(row, q)}
                /\ req' = [req EXCEPT ![r] =
                        Answer([q EXCEPT !.touched = {row}], 200,
                               [NoResponse EXCEPT !.memories = <<updated(row, q)>>])]
    /\ UNCHANGED <<now, outside>>

(***************************************************************************)
(* The MCP tools putMemory, getMemory, listMemories                        *)
(***************************************************************************)
\* limit = 20 of listMemories
DefaultListLimit == 20

\* { content: text({ ok: false, error }) }
McpError(q, message) ==
    [q EXCEPT !.pc = "done", !.sent = @ + 1, !.failed = "store", !.upstream = message,
              !.res = [NoResponse EXCEPT !.message = message]]

\* { content: text({ ok: true, ... }) }
McpOk(q, body) == [q EXCEPT !.pc = "done", !.sent = @ + 1, !.res = [body EXCEPT !.ok = TRUE]]

\* putMemory: the caller names the row's id and its user_id
McpPutMemory(r) ==
    /\ Free(r)
    /\ \E id \in MemIds, user_id \in Users :
        req' = [req EXCEPT ![r] =
            [Incoming("putMemory", "none") EXCEPT
                !.user = user_id, !.id = id, !.text = Text(TextDarkSql),
                !.pc = "awaitStore", !.storeCalls = @ + 1]]
    /\ UNCHANGED <<memories, now, outside>>

\* .upsert({ id, user_id, text, meta }): the row of that id gets the user_id
\* and the text, whoever owned it; without such a row one is inserted, its
\* other columns at their defaults and without embedding
McpPutMemoryReply(r) ==
    /\ req[r].pc = "awaitStore"
    /\ req[r].route = "putMemory"
    /\ LET q == req[r]
           rows == { m \in memories : m.id = q.id }
       IN  \/ /\ \E message \in UpstreamMessages \ {""} :
                    req' = [req EXCEPT ![r] = McpError(@, message)]
              /\ UNCHANGED memories
           \/ /\ rows = {}
              /\ LET row == Row(q.id, q.user, q.text.s, "api", "default", now, <<>>)
                 IN  /\ memories' = memories \cup {row}
                     /\ req' = [req EXCEPT ![r] = McpOk([@ EXCEPT !.created = {row}], NoResponse)]
           \/ \E row \in rows :
                /\ memories' = (memories \ {row})
                                  \cup {[row EXCEPT !.user_id = q.user, !.text = q.text.s]}
                /\ req' = [req EXCEPT ![r] = McpOk([@ EXCEPT !.touched = {row}], NoResponse)]
    /\ UNCHANGED <<now, outside>>

\* getMemory: the caller names an id only
McpGetMemory(r) ==
    /\ Free(r)
    /\ \E id \in MemIds :
        req' = [req EXCEPT ![r] =
            [Incoming("getMemory", "none") EXCEPT
                !.id = id, !.pc = "awaitStore", !.storeCalls = @ + 1]]
    /\ UNCHANGED <<memories, now, outside>>

\* .select("*").eq("id", id).single(); no row (PGRST116) answers memory: null
McpGetMemoryReply(r) ==
    /\ req[r].pc = "awaitStore"
    /\ req[r].route = "getMemory"
    /\ LET rows == { m \in memories : m.id = req[r].id }
       IN  \/ \E message \in UpstreamMessages \ {""} :
                req' = [req EXCEPT ![r] = McpError(@, message)]
           \/ /\ rows = {}
              /\ req' = [req EXCEPT ![r] = McpOk(@, NoResponse)]
           \/ \E row \in rows :
                req' = [req EXCEPT ![r] =
                    McpOk([@ EXCEPT !.read = {row}, !.matched = 1],
                          [NoResponse EXCEPT !.memories = <<row>>])]
    /\ UNCHANGED <<memories, now, outside>>

\* listMemories: the caller names the user_id
McpListMemories(r) ==
    /\ Free(r)
    /\ \E user_id \in Users, limit \in Limits :
        req' = [req EXCEPT ![r] =
            [Incoming("listMemories", "none") EXCEPT
                !.user = user_id, !.limit = limit,
                !.pc = "awaitStore", !.storeCalls = @ + 1]]
    /\ UNCHANGED <<memories, now, outside>>

McpListMemoriesReply(r) ==
    /\ req[r].pc = "awaitStore"
    /\ req[r].route = "listMemories"
    /\ \/ \E message \in UpstreamMessages \ {""} :
            req' = [req EXCEPT ![r] = McpError(@, message)]
       \/ \E data \in limited(orderDesc(filtered(req[r].user, "", "")),
                              limitOr(req[r].limit, DefaultListLimit)) :
            req' = [req EXCEPT ![r] =
                McpOk([@ EXCEPT !.read = Range(data)],
                      [NoResponse EXCEPT !.memories = data, !.count = Len(data)])]
    /\ UNCHANGED <<memories, now, outside>>

(***************************************************************************)
(* authenticateApiKey: JWT bearer token, or API key                        *)
(***************************************************************************)
\* authHeader.startsWith('Bearer ')
startsWith(s, prefix) == Len(s) >= Len(prefix) /\ SubSeq(s, 1, Len(prefix)) = prefix

\* authHeader.substring(n)
substring(s, n) == SubSeq(s, n + 1, Len(s))

BearerPrefix == <<"B","e","a","r","e","r"," ">>

\* the token supabase.auth.getUser accepts, and one it does not
TokenGood == <<"j","w","t">>

\* the Authorization header: none, a good, a bad and an empty bearer token,
\* and a scheme that is not 'Bearer '
AuthorizationHeaders ==
    {<<>>, BearerPrefix \o TokenGood, BearerPrefix \o <<"x">>, BearerPrefix,
     <<"b","e","a","r","e","r"," ">> \o TokenGood}

\* the X-API-Key header: none, two keys the table may hold, one it never holds
ApiKeyHeaders == {"", "rb_live", "rb_old", "rb_none"}

\* last_used_at of a key that was never used (NULL)
NeverUsed == -1

ApiKey(id, key, user_id, is_active) ==
    [id |-> id, key |-> key, user_id |-> user_id, is_active |-> is_active,
     last_used_at |-> NeverUsed]

\* the api_keys tables: each of the two keys is absent, active or inactive
ApiKeyTables ==
    { live \cup old :
        live \in {{}} \cup { {ApiKey(1, "rb_live", MockUserId, a)} : a \in BOOLEAN },
        old \in {{}} \cup { {ApiKey(2, "rb_old", OtherUserId, a)} : a \in BOOLEAN } }

\* the middleware before a request; steps lists what a run has done, touched
\* the api_keys rows it has written, as they were before
IdleAuth ==
    [pc |-> "idle", authorization |-> <<>>, apiKey |-> "", token |-> <<>>,
     apiKeyData |-> ApiKey(0, "", NoUser, FALSE), user |-> NoUser, authMethod |-> "",
     nextCalls |-> 0, statusCode |-> 0, message |-> "", steps |-> <<>>, touched |-> {}]

\* next(error), out of the outer catch
nextError(a, statusCode, message) ==
    [a EXCEPT !.pc = "done", !.nextCalls = @ + 1, !.statusCode = statusCode, !.message = message]

\* req.user = { id, ... }; req.authMethod = method; next()
attached(a, user, method) ==
    [a EXCEPT !.pc = "done", !.user = user, !.authMethod = method, !.nextCalls = @ + 1,
              !.steps = Append(@, "attach")]

\* the inner catch: an error of status 401 is thrown again as it is, any
\* other becomes Errors.databaseError
rethrown(statusCode) == IF statusCode = 401 THEN 401 ELSE 500

\* the middleware up to its first await
authenticateApiKey ==
    /\ auth.pc = "idle"
    /\ \E authorization \in AuthorizationHeaders, apiKey \in ApiKeyHeaders :
        LET a == [IdleAuth EXCEPT !.authorization = authorization, !.apiKey = apiKey]
        IN  auth' =
                IF authorization # <<>> /\ startsWith(authorization, BearerPrefix)
                THEN [a EXCEPT !.pc = "awaitGetUser", !.token = substring(authorization, 7),
                               !.steps = <<"getUser">>]
                ELSE IF apiKey = ""
                THEN nextError(a, 401, "Authentication required. Provide either Authorization: Bearer {token} or X-API-Key header")
                ELSE [a EXCEPT !.pc = "awaitSelect", !.steps = <<"select">>]
    /\ UNCHANGED <<memories, now, req, api_keys, proc>>

\* supabase.auth.getUser(token) returns: the user of a good token, or an
\* error or no user; the catch of the JWT branch throws unauthorized again
getUserReply ==
    /\ auth.pc = "awaitGetUser"
    /\ \/ /\ auth.token = TokenGood
          /\ auth' = attached([auth EXCEPT !.user = MockUserId], MockUserId, "jwt")
       \/ auth' = nextError(auth, 401, "Invalid or expired token")
    /\ UNCHANGED <<memories, now, req, api_keys, proc>>

\* a key without its is_active test
inactiveNever(apiKeyData) == FALSE

\* !apiKeyData.is_active
inactive(apiKeyData) == ~apiKeyData.is_active

\* the select of the key returns: an error of the store or of .single() (no
\* row), or the row; an active key goes on to the update of last_used_at
apiKeysSelectReply ==
    /\ auth.pc = "awaitSelect"
    /\ LET rows == { k \in api_keys : k.key = auth.apiKey }
       IN  \/ auth' = nextError(auth, rethrown(401), "Invalid API key")
           \/ \E apiKeyData \in rows :
                auth' = IF inactive(apiKeyData)
                        THEN nextError([auth EXCEPT !.steps = Append(@, "is_active")],
                                       rethrown(401), "API key is inactive")
                        ELSE [auth EXCEPT !.pc = "awaitUpdate", !.apiKeyData = apiKeyData,
                                          !.steps = @ \o <<"is_active", "update">>]
    /\ UNCHANGED <<memories, now, req, api_keys, proc>>

\* the update of last_used_at returns; its result is not looked at, so a
\* failed update goes on like a successful one
apiKeysUpdateReply ==
    /\ auth.pc = "awaitUpdate"
    /\ LET rows == { k \in api_keys : k.id = auth.apiKeyData.id }
       IN  \/ /\ api_keys' = (api_keys \ rows) \cup { [k EXCEPT !.last_used_at = now] : k \in rows }
              /\ auth' = attached([auth EXCEPT !.touched = rows], auth.apiKeyData.user_id, "api-key")
           \/ /\ UNCHANGED api_keys
              /\ auth' = attached(auth, auth.apiKeyData.user_id, "api-key")
    /\ UNCHANGED <<memories, now, req, proc>>

\* the request has gone on to the next middleware or to the error handler
authClose ==
    /\ auth.pc = "done"
    /\ auth' = IdleAuth
    /\ UNCHANGED <<memories, now, req, api_keys, proc>>

(***************************************************************************)
(* The process: startServer, gracefulShutdown                              *)
(***************************************************************************)
\* exitCode of a process that has not called process.exit
NotExited == -1

\* the process when the module has been loaded: the signal handlers are
\* registered, startServer() has been called and awaits testConnection();
\* let server is undefined, isShuttingDown is false. timer is the 2 s wait of
\* gracefulShutdown; triggers counts the calls of gracefulShutdown.
Starting ==
    [startup |-> "testing", server |-> "undefined", isShuttingDown |-> FALSE,
     exitCode |-> NotExited, timer |-> "none", signal |-> "", triggers |-> 0]

\* the process after app.listen
Listening == [Starting EXCEPT !.startup = "started", !.server = "listening"]

Running == proc.exitCode = NotExited

\* what gracefulShutdown is called with
Signals == {"SIGTERM", "SIGINT", "UNCAUGHT_EXCEPTION", "UNHANDLED_REJECTION"}

\* startServer: testConnection() has returned (connected or not), app.listen
startServerListen ==
    /\ Running
    /\ proc.startup = "testing"
    /\ proc' = [proc EXCEPT !.startup = "started", !.server = "listening"]
    /\ UNCHANGED <<memories, now, req, api_keys, auth>>

\* startServer: its catch, process.exit(1)
startServerFailed ==
    /\ Running
    /\ proc.startup = "testing"
    /\ proc' = [proc EXCEPT !.startup = "failed", !.exitCode = 1]
    /\ UNCHANGED <<memories, now, req, api_keys, auth>>

\* gracefulShutdown(signal) up to its await: a second call exits with 1; the
\* first sets isShuttingDown, closes the server if there is one and starts
\* the wait for the requests in flight
gracefulShutdown ==
    /\ Running
    /\ \E signal \in Signals :
        proc' = IF proc.isShuttingDown
                THEN [proc EXCEPT !.exitCode = 1, !.triggers = @ + 1]
                ELSE [proc EXCEPT !.isShuttingDown = TRUE, !.signal = signal,
                                  !.triggers = @ + 1, !.timer = "armed",
                                  !.server = IF @ = "undefined" THEN @ ELSE "closed"]
    /\ UNCHANGED <<memories, now, req, api_keys, auth>>

\* the 2 s wait is over: clearTimeout(shutdownTimeout), process.exit(0). (The
\* 30 s shutdownTimeout is set at the same moment as the 2 s timer and is
\* cleared when that one has fired, so its callback never runs.)
shutdownComplete ==
    /\ Running
    /\ proc.timer = "armed"
    /\ proc' = [proc EXCEPT !.timer = "fired", !.exitCode = 0]
    /\ UNCHANGED <<memories, now, req, api_keys, auth>>

\* a listening server takes a request to GET /memories/:id
acceptRequest(r) ==
    /\ Running
    /\ proc.server = "listening"
    /\ MemoryGet(r)

\* a request in flight goes on as long as the process runs
serveRequest(r) ==
    /\ Running
    /\ MemoryGetReply(r)

endRequest(r) ==
    /\ Running
    /\ Close(r)

\* the state outside the routers when only the routers are looked at: the
\* server listens, authenticateApiKey is not mounted
RoutersOnly ==
    /\ api_keys = {}
    /\ auth = IdleAuth
    /\ proc = Listening

(***************************************************************************)
(* The server: every route, over a table that starts empty                 *)
(***************************************************************************)
\* time passes
Tick ==
    /\ now < MaxNow
    /\ now' = now + 1
    /\ UNCHANGED <<memories, req, outside>>

Init ==
    /\ memories = {}
    /\ now = 0
    /\ req = [r \in Slots |-> IdleRequest]
    /\ RoutersOnly

Next ==
    \/ Tick
    \/ \E r \in Slots :
        \/ ContextPost(r, Credentials, {UndefinedText, ArrayText, Text(TextDark)},
                       {UndefinedVal}, Limits, ProjectInputs, {NoHistory})
        \/ ContextPostReply(r)
        \/ ContextSearch(r)
        \/ ContextSearchReply(r)
        \/ MemoryCreate(r)
        \/ ExtractReply(r)
        \/ EmbeddingReply(r)
        \/ MemoryCreateReply(r)
        \/ MemoryList(r)
        \/ MemoryListReply(r)
        \/ MemorySearchGet(r)
        \/ MemorySearchPost(r)
        \/ MemoryContext(r)
        \/ VectorSearchReply(r)
        \/ MemoryContextAll(r)
        \/ MemoryContextAllReply(r)
        \/ MemoryGet(r)
        \/ MemoryGetReply(r)
        \/ MemoryDelete(r)
        \/ MemoryDeleteReply(r)
        \/ MemoryPut(r)
        \/ MemoryPutReply(r)
        \/ McpPutMemory(r)
        \/ McpPutMemoryReply(r)
        \/ McpGetMemory(r)
        \/ McpGetMemoryReply(r)
        \/ McpListMemories(r)
        \/ McpListMemoriesReply(r)
        \/ Close(r)

Spec == Init /\ [][Next]_vars

\* --- retrieval over a table that already holds rows ---
ScoringQueries == {Text(TextDark), Text(TextDarkCommaSql)}

ScoringHistories == {NoHistory, History(<<>>), History(<<TextDark>>)}

\* created_at of the rows in the table, and the times of evaluation: a row
\* can be younger than, as old as, or (the store's clock running ahead of
\* the server's) later than the evaluation
SeedCreated == 0..1

EvaluationTimes == {0, 1, RecencyMax + 2}

SeedRows(id) ==
    { Row(id, MockUserId, text, source, "default", created_at, embeddingOf(text)) :
        text \in {TextDarkSql, TextCat}, source \in {"api", "claude"},
        created_at \in SeedCreated }

\* the tables with at most one row per id
SeedTables ==
    UNION { { { pick[id] : id \in ids } :
                pick \in { f \in [ids -> UNION { SeedRows(id) : id \in ids }] :
                             \A id \in ids : f[id].id = id } } :
            ids \in SUBSET MemIds }

InitContext ==
    /\ memories \in SeedTables
    /\ now \in EvaluationTimes
    /\ req = [r \in Slots |-> IdleRequest]
    /\ RoutersOnly

NextContext ==
    \E r \in Slots :
        \/ ContextPost(r, {"api-key"}, ScoringQueries, Llms, Limits, {""}, ScoringHistories)
        \/ ContextPostReply(r)
        \/ Close(r)

SpecContext == InitContext /\ [][NextContext]_vars


\* --- two requests in flight at a time, over a table no request writes ---
ConcurrentSlots == {"r1", "r2"}

\* rows created at the same instant: the store's order of them is open
ConcurrentTables ==
    { t \in SeedTables : \A m \in t : m.source = "api" /\ m.created_at = 0 }

InitConcurrent ==
    /\ memories \in ConcurrentTables
    /\ now = 0
    /\ req = [r \in ConcurrentSlots |-> IdleRequest]
    /\ RoutersOnly

NextConcurrent ==
    \E r \in ConcurrentSlots :
        \/ ContextPost(r, {"api-key"}, {Text(TextDark), Text(TextCat)}, {StrVal("claude")}, Limits, {""}, {NoHistory})
        \/ ContextPostReply(r)
        \/ MemoryContext(r)
        \/ EmbeddingReply(r)
        \/ VectorSearchReply(r)
        \/ Close(r)

SpecConcurrent == InitConcurrent /\ [][NextConcurrent]_vars

\* --- authenticateApiKey on its own, over the tables of keys ---
InitAuth ==
    /\ memories = {}
    /\ now = 0
    /\ req = [r \in Slots |-> IdleRequest]
    /\ api_keys \in ApiKeyTables
    /\ auth = IdleAuth
    /\ proc = Listening

NextAuth ==
    \/ authenticateApiKey
    \/ getUserReply
    \/ apiKeysSelectReply
    \/ apiKeysUpdateReply
    \/ authClose

SpecAuth == InitAuth /\ [][NextAuth]_vars

\* --- the process from the load of the module to its exit ---
InitShutdown ==
    /\ memories = {}
    /\ now = 0
    /\ req = [r \in Slots |-> IdleRequest]
    /\ api_keys = {}
    /\ auth = IdleAuth
    /\ proc = Starting

NextShutdown ==
    \/ startServerListen
    \/ startServerFailed
    \/ gracefulShutdown
    \/ shutdownComplete
    \/ \E r \in Slots :
        \/ acceptRequest(r)
        \/ serveRequest(r)
        \/ endRequest(r)

\* the timer of the 2 s wait fires: the event loop runs a timer that is due
SpecShutdown == InitShutdown /\ [][NextShutdown]_vars /\ WF_vars(shutdownComplete)

\* --- keyword extraction over many queries and histories; the table is empty ---
WordDark == <<"D","a","r","k">>
WordSql1 == <<"s","q","l","_","1">>
WordThe == <<"T","h","e">>
WordAb == <<"a","b">>
WordCan == <<" ","c","a","n","!">>

KeywordWords == {WordDark, WordThe, WordAb, WordCan}

Separators == {<<" ">>, <<",", " ">>, <<"-">>, <<"\t", "\n">>}

\* the longest phrase built from freely chosen words
MaxPhraseWords == 2

Phrases(n) == { join(ws, sep) : ws \in [1..n -> KeywordWords], sep \in Separators }

\* a first word, then n words alternating between two words the filter keeps
LongPhrase(first, w1, w2, n) ==
    join(<<first>> \o [i \in 1..n |-> IF i % 2 = 1 THEN w1 ELSE w2], <<" ">>)

\* how far a long phrase exceeds the slice of the query's tokens
MaxExcessWords == 2

KeywordQueries ==
    { Text(p) : p \in UNION { Phrases(n) : n \in 0..MaxPhraseWords } }
    \cup { Text(LongPhrase(first, w1, w2, n)) :
             first \in KeywordWords, w1 \in {WordDark, WordSql1}, w2 \in {WordDark, WordSql1},
             n \in MaxQueryKeywords..(MaxQueryKeywords + MaxExcessWords) }

TurnOld == <<"o","l","d","e","s","t"," ","t","u","r","n">>
TurnShort == <<"t","h","e"," ","c","a","t",","," ","o","k">>
TurnLong == <<"D","a","r","k"," ","m","o","d","e"," ","i","s"," ","o","n">>

\* the longest conversation history
MaxTurns == 3

KeywordHistories ==
    {NoHistory}
    \cup { History(h) : h \in UNION { [1..n -> {TurnShort, TurnLong}] : n \in 0..MaxTurns } }
    \cup { History(<<TurnOld>> \o h) : h \in [1..RecentTurns -> {TurnShort, TurnLong}] }

InitKeywords ==
    /\ memories = {}
    /\ now = 0
    /\ req = [r \in Slots |-> IdleRequest]
    /\ RoutersOnly

NextKeywords ==
    \E r \in Slots :
        \/ ContextPost(r, {"api-key"}, KeywordQueries, {UndefinedVal}, {0}, {""}, KeywordHistories)
        \/ ContextPostReply(r)
        \/ Close(r)

SpecKeywords == InitKeywords /\ [][NextKeywords]_vars

(***************************************************************************)
(* Properties of POST /context                                             *)
(***************************************************************************)
\* r holds a request of POST /context that passed the validation and whose
\* keywords have been extracted
Extracted(r) ==
    /\ req[r].route = "POST /context"
    /\ \/ req[r].pc = "awaitStore"
       \/ req[r].pc = "done" /\ req[r].storeCalls > 0

\* r holds a successful response of POST /context
ContextOk(r) ==
    req[r].route = "POST /context" /\ req[r].pc = "done" /\ req[r].res.status = 200

\* the keyword list, as answered once the response is there
keywordsOfRequest(r) ==
    IF ContextOk(r) THEN req[r].res.keywords_extracted ELSE req[r].keywords

\* C1: the keyword list of a POST /context request with a non-empty query has
\* at most 15 entries, at most 10 taken from the query followed by at most 5
\* taken from the last turns of the history, and no entry has length <= 2 or
\* is a stop word.
C1_KeywordsBounded ==
    \A r \in Slots : Extracted(r) =>
        LET kw == keywordsOfRequest(r)
            lowQuery == toLowerCase(req[r].query.s)
            lowTurns == toLowerCase(join(sliceLast(req[r].history.items, RecentTurns), <<" ">>))
        IN  /\ Len(kw) <= 15
            /\ \A i \in DOMAIN kw : Len(kw[i]) > 2 /\ kw[i] \notin stopWords
            /\ \E k \in 0..Min(10, Len(kw)) :
                /\ Len(kw) - k <= 5
                /\ \A i \in 1..k : includes(lowQuery, kw[i])
                /\ \A i \in (k + 1)..Len(kw) : includes(lowTurns, kw[i])

\* C1 witness: a response with the full 15 keywords, for a query with more
\* than 10 kept tokens that also holds a stop word or a short token
C1_Witness ==
    \E r \in Slots :
        /\ ContextOk(r)
        /\ Len(req[r].res.keywords_extracted) = 15
        /\ Len(tokens(req[r].query.s)) > 10
        /\ \E w \in Range(split(replaceNonWord(toLowerCase(req[r].query.s)))) :
              w \in stopWords \/ (Len(w) > 0 /\ Len(w) <= 2)


\* the keywords (without repetition) that occur in a memory's text
distinctMatches(kw, text) == { k \in Range(kw) : includes(toLowerCase(text), k) }

\* C2: relevance_score = 10 x (number of distinct extracted keywords that
\* occur, case-insensitively, in the memory's text) + recency bonus: a keyword
\* that is twice in the keyword list counts once.
C2_ScoreCountsDistinctKeywords ==
    \A r \in Slots : ContextOk(r) =>
        \A i \in DOMAIN req[r].res.memories :
            LET m == req[r].res.memories[i]
            IN  m.relevance_score =
                    10 * Cardinality(distinctMatches(req[r].res.keywords_extracted, m.text))
                    + recencyBonus(m.created_at, req[r].evaluatedAt)

\* the part of a score that is not keyword points
bonusOf(m, kw) == m.relevance_score - KeywordPoints * keywordHits(kw, m.text)

\* C3: whatever created_at is relative to the evaluation time, the recency
\* bonus in a score lies in [0, 5], and of two memories the older one never
\* has the larger bonus.
C3_RecencyBonusBounded ==
    \A r \in Slots : ContextOk(r) =>
        LET kw == req[r].res.keywords_extracted
            ms == req[r].res.memories
        IN  /\ \A i \in DOMAIN ms : bonusOf(ms[i], kw) >= 0 /\ bonusOf(ms[i], kw) <= 5
            /\ \A i, j \in DOMAIN ms :
                  ms[i].created_at <= ms[j].created_at => bonusOf(ms[i], kw) <= bonusOf(ms[j], kw)

\* C4: the memories of a successful POST /context response are sorted by
\* relevance_score, descending.
C4_SortedByScore ==
    \A r \in Slots : ContextOk(r) =>
        \A i, j \in DOMAIN req[r].res.memories :
            i < j => req[r].res.memories[i].relevance_score >= req[r].res.memories[j].relevance_score

\* C4 witness: a response whose first memory has the strictly larger score
\* and is the older one, so that the store's order was the other way round
C4_Witness ==
    \E r \in Slots :
        /\ ContextOk(r)
        /\ Len(req[r].res.memories) >= 2
        /\ req[r].res.memories[1].relevance_score > req[r].res.memories[2].relevance_score
        /\ req[r].res.memories[1].created_at < req[r].res.memories[2].created_at

\* C5: crossLLM is the boolean true exactly when the final results have more
\* than one distinct source and the caller's llm is not among them, and the
\* boolean false otherwise, also for a request without llm or with an empty one.
C5_CrossLLMIsBoolean ==
    \A r \in Slots : ContextOk(r) =>
        req[r].res.crossLLM =
            BoolVal(/\ Cardinality(sources(req[r].res.memories)) > 1
                    /\ ~(req[r].llm.t = "string" /\ req[r].llm.s \in sources(req[r].res.memories)))


(***************************************************************************)
(* Properties of the server                                                *)
(***************************************************************************)
\* the routes of the context router and of the memories router
HttpRoutes ==
    {"POST /context", "POST /context/search", "POST /memories", "GET /memories",
     "GET /memories/search", "POST /memories/search", "GET /memories/context",
     "GET /memories/context/all", "GET /memories/:id", "DELETE /memories/:id",
     "PUT /memories/:id"}

VectorRoutes == {"GET /memories/search", "POST /memories/search", "GET /memories/context"}

RetrievalRoutes == VectorRoutes \cup {"POST /context"}

IdRoutes == {"GET /memories/:id", "DELETE /memories/:id", "PUT /memories/:id"}

\* C6: through every entry point, the rows an operation returns, updates,
\* deletes or overwrites belong to the owner the request resolved to.
C6_OwnerScoped ==
    \A r \in Slots :
        \A m \in req[r].read \cup req[r].touched : m.user_id = req[r].user

\* C7: a request of the context or the memories router that carries no
\* credentials never gets an owner id and never causes a store query.
C7_RoutesRequireAuthentication ==
    \A r \in Slots :
        (req[r].route \in HttpRoutes /\ req[r].creds = "none") =>
            (req[r].user = NoUser /\ req[r].storeCalls = 0)

\* the request in slot r lacks the field its route requires
FailsValidation(r) ==
    \/ req[r].route = "POST /context" /\ (req[r].query.t = "undefined" \/ req[r].query = Text(<<>>))
    \/ req[r].route = "POST /memories" /\ (req[r].text.t = "undefined" \/ req[r].text = Text(<<>>))
    \/ req[r].route \in VectorRoutes /\ (req[r].query.t # "string" \/ req[r].query.s = <<>>)

NoExternalCall(r) ==
    req[r].storeCalls = 0 /\ req[r].embedCalls = 0 /\ req[r].extractCalls = 0

\* C8: a request that fails validation is answered with 400 and issues no
\* store query, no embedding call and no extraction call; and every 400 is
\* answered before any such call.
C8_ValidationBeforeExternalCalls ==
    \A r \in Slots :
        /\ FailsValidation(r) =>
              req[r].pc = "done" /\ req[r].res.status = 400 /\ req[r].sent = 1 /\ NoExternalCall(r)
        /\ req[r].res.status = 400 => NoExternalCall(r)

\* C8 witness: a vector search whose q is not a string (a repeated query
\* parameter) has been answered with 400
C8_Witness ==
    \E r \in Slots :
        /\ req[r].route = "GET /memories/search"
        /\ req[r].query.t = "array"
        /\ req[r].res.status = 400

\* C9: when the embedding call or the store call of a retrieval fails, the
\* request ends with one 500 response that carries the upstream message (the
\* route's own message when the upstream error has none) and no memories or
\* context; no store query follows a failed embedding call, and the other
\* retrieval mode is not tried.
C9_UpstreamFailureAborts ==
    \A r \in Slots :
        (req[r].route \in RetrievalRoutes /\ req[r].failed # "") =>
            /\ req[r].pc = "done"
            /\ req[r].res.status = 500
            /\ req[r].sent = 1
            /\ req[r].res.memories = <<>> /\ req[r].res.context = <<>> /\ req[r].res.count = 0
            /\ req[r].upstream # "" => req[r].res.message = req[r].upstream
            /\ req[r].failed = "embedding" => req[r].storeCalls = 0
            /\ req[r].route = "POST /context" => req[r].embedCalls = 0
            /\ req[r].storeCalls + req[r].embedCalls <= (IF req[r].route = "POST /context" THEN 1 ELSE 2)

\* C9 witness: GET /memories/context after its embedding call failed
C9_Witness ==
    \E r \in Slots :
        /\ req[r].route = "GET /memories/context"
        /\ req[r].failed = "embedding"
        /\ req[r].upstream # ""
        /\ req[r].res.status = 500

\* C10: GET, PUT and DELETE /memories/:id for an id the owner has no row of
\* are answered with 404, and the table is as before.
C10_UnknownIdIsNotFound ==
    \A r \in Slots :
        (/\ req[r].route \in IdRoutes
         /\ req[r].pc = "done"
         /\ req[r].failed = ""
         /\ req[r].matched = 0) =>
            (req[r].res.status = 404 /\ req[r].touched = {} /\ req[r].created = {})

(***************************************************************************)
(* Properties of the stored memories                                       *)
(***************************************************************************)
\* C11: every stored memory has a non-empty text, an owner id, and the
\* embedding computed from the text it has now. (An operation that changes a
\* text without computing the embedding again, or that changes the text
\* although the embedding call failed, leaves a row that breaks this.)
C11_EmbeddingFollowsText ==
    \A m \in memories :
        /\ m.text # <<>>
        /\ m.user_id # NoUser
        /\ m.embedding = embeddingOf(m.text)

\* the entry points that only read
ReadRoutes ==
    {"POST /context", "POST /context/search", "GET /memories/search",
     "POST /memories/search", "GET /memories/context", "GET /memories/context/all",
     "GET /memories", "GET /memories/:id"}

\* C12: no step of a retrieval request, from its arrival to its response,
\* changes the table: the set of rows and every field of every row stay as
\* they are; and no stored row ever carries a relevance_score, which exists
\* only on the copies in a response.
C12_RetrievalNeverMutates ==
    /\ [][\A r \in DOMAIN req :
            (req'[r] # req[r] /\ req'[r].route \in ReadRoutes) => memories' = memories]_vars
    /\ [](\A m \in memories : "relevance_score" \notin DOMAIN m)

\* C12 witness: POST /context has answered with scored copies of stored rows,
\* and the stored rows are the ones it read
C12_Witness ==
    \E r \in DOMAIN req :
        /\ ContextOk(r)
        /\ req[r].res.memories # <<>>
        /\ req[r].read \subseteq memories
        /\ \A i \in DOMAIN req[r].res.memories :
              "relevance_score" \in DOMAIN req[r].res.memories[i]

(***************************************************************************)
(* Properties of the text-only endpoints                                   *)
(***************************************************************************)
TextOnlyRoutes == {"GET /memories/context", "GET /memories/context/all"}

\* r holds a successful response of a text-only endpoint
TextOnlyOk(r) ==
    req[r].route \in TextOnlyRoutes /\ req[r].pc = "done" /\ req[r].res.status = 200

\* the lists of the rows' texts, the rows taken most recent first
recencyTexts(rows) ==
    { texts(data) : data \in { d \in anyOrder(rows) :
                                 \A i, j \in DOMAIN d : i < j => d[i].created_at >= d[j].created_at } }

\* the response has a context list and a count and nothing of a memory besides
OnlyTexts(r) ==
    /\ req[r].res.count = Len(req[r].res.context)
    /\ req[r].res.memories = <<>>
    /\ req[r].res.keywords_extracted = <<>>

\* C13 as stated: on both text-only endpoints the context list is the texts
\* of the matched memories in order of created_at, descending, count is its
\* length, and the response has no other field of a memory.
C13_TextOnlyInRecencyOrder ==
    \A r \in DOMAIN req : TextOnlyOk(r) =>
        /\ req[r].res.context \in recencyTexts(req[r].read)
        /\ OnlyTexts(r)

\* C13 amended: GET /memories/context/all answers the texts in order of
\* created_at, descending; GET /memories/context answers the texts of the rows
\* the similarity search returned, each once, in the search's order; on both,
\* count is the list's length and the response has no other field of a memory.
C13_TextOnlyInStoreOrder ==
    \A r \in DOMAIN req : TextOnlyOk(r) =>
        /\ req[r].route = "GET /memories/context/all" =>
              req[r].res.context \in recencyTexts(req[r].read)
        /\ req[r].route = "GET /memories/context" =>
              req[r].res.context \in { texts(data) : data \in anyOrder(req[r].read) }
        /\ OnlyTexts(r)

\* C13 witness: GET /memories/context/all has answered two texts of rows
\* created at different times
C13_Witness ==
    \E r \in DOMAIN req :
        /\ TextOnlyOk(r)
        /\ req[r].route = "GET /memories/context/all"
        /\ Len(req[r].res.context) = 2
        /\ \E m1, m2 \in req[r].read : m1.created_at < m2.created_at

C15_ConversationContextFlag ==
    \A r \in DOMAIN req : ContextOk(r) =>
        (req[r].res.conversation_context
            <=> (req[r].history.t = "array" /\ Len(req[r].history.items) > 0))

(***************************************************************************)
(* Properties of runs of POST /context side by side                        *)
(***************************************************************************)
\* the request fields of POST /context
sameRequest(q1, q2) ==
    /\ q1.user = q2.user /\ q1.query = q2.query /\ q1.llm = q2.llm
    /\ q1.limit = q2.limit /\ q1.project_id = q2.project_id /\ q1.history = q2.history

\* C16: two successful POST /context runs with the same request fields, over
\* the same table (no request of this specification writes it) and evaluated
\* at the same instant answer the same memories in the same order with the
\* same scores, the same keywords_extracted and the same crossLLM. The two
\* runs compared are runs for which the text search matched the same rows.
C16_LexicalPathDeterministic ==
    \A r1, r2 \in DOMAIN req :
        (/\ ContextOk(r1) /\ ContextOk(r2)
         /\ sameRequest(req[r1], req[r2])
         /\ req[r1].evaluatedAt = req[r2].evaluatedAt
         /\ req[r1].read = req[r2].read) =>
            /\ req[r1].res.memories = req[r2].res.memories
            /\ req[r1].res.keywords_extracted = req[r2].res.keywords_extracted
            /\ req[r1].res.crossLLM = req[r2].res.crossLLM

\* the responses a request with the fields of q gets when it is the only one
\* being served, over the table as it is, evaluated at the instant q was
POST_context_alone(q) ==
    { Caught(q, message, "Failed to recall context.").res : message \in UpstreamMessages }
    \cup UNION { { contextResponse([q EXCEPT !.keywords = keywords(q.query.s, q.history)],
                                   data, q.evaluatedAt) :
                     data \in limited(orderDesc(matched), limitOr(q.limit, DefaultLimit)) } :
                 matched \in SUBSET filtered(q.user, q.project_id, "") }

GET_context_alone(q) ==
    { Fail(q, 400, "Bad Request", "Query parameter \"q\" is required.").res }
    \cup { Caught(q, message, "Failed to generate context.").res : message \in UpstreamMessages }
    \cup { [NoResponse EXCEPT !.status = 200, !.context = texts(data), !.count = Len(data)] :
             data \in match_memories(q.user, limitOr(q.limit, DefaultMatchCount)) }

\* C17: whatever the interleaving of the requests in flight at their awaits
\* (store query, embedding call), the response of each is one it gets when
\* it runs alone; and a step of one request changes nothing but that
\* request's own record: not the table, not the clock, not another request.
C17_RequestsIndependent ==
    /\ [](\A r \in DOMAIN req : req[r].pc = "done" =>
            /\ req[r].route = "POST /context" => req[r].res \in POST_context_alone(req[r])
            /\ req[r].route = "GET /memories/context" => req[r].res \in GET_context_alone(req[r]))
    /\ [][\A r \in DOMAIN req : req'[r] # req[r] =>
            /\ memories' = memories /\ now' = now
            /\ \A o \in DOMAIN req \ {r} : req'[o] = req[o]]_vars

\* C17 witness: a POST /context request has been answered with scored
\* memories while another, with other keywords, is waiting for the store
C17_Witness ==
    \E r1, r2 \in DOMAIN req :
        /\ ContextOk(r1) /\ req[r1].res.memories # <<>>
        /\ req[r2].route = "POST /context" /\ req[r2].pc = "awaitStore"
        /\ req[r2].keywords # req[r1].keywords

\* C18: of two memories of equal relevance_score in a POST /context response,
\* the one with the later created_at comes first.
C18_TiesMostRecentFirst ==
    \A r \in DOMAIN req : ContextOk(r) =>
        \A i, j \in DOMAIN req[r].res.memories :
            LET a == req[r].res.memories[i]
                b == req[r].res.memories[j]
            IN  (i < j /\ a.relevance_score = b.relevance_score) => a.created_at >= b.created_at

\* C18 witness: a response with two memories of equal score, created at
\* different times
C18_Witness ==
    \E r \in DOMAIN req :
        /\ ContextOk(r)
        /\ Len(req[r].res.memories) = 2
        /\ req[r].res.memories[1].relevance_score = req[r].res.memories[2].relevance_score
        /\ req[r].res.memories[1].created_at > req[r].res.memories[2].created_at

(***************************************************************************)
(* Properties of authenticateApiKey                                        *)
(***************************************************************************)
\* the run is for a request with a Bearer header
HasBearer == Len(auth.authorization) >= 7 /\ SubSeq(auth.authorization, 1, 7) = BearerPrefix

\* the rows of the key the request carries
keyRows == { k \in api_keys : k.key = auth.apiKey }

\* C19: for a request without Bearer header, next() is called without error
\* only after the key was looked up, found active, its last_used_at update
\* issued and the owner attached, in this order; a missing, unknown or
\* inactive key ends in next(401), without req.user and without a written
\* api_keys row; last_used_at is written for active keys only. A request with
\* a Bearer header and a token that is not valid ends in next(401) without a
\* lookup of the X-API-Key header.
C19_ApiKeyStepsInOrder ==
    /\ \A k \in api_keys : k.last_used_at # NeverUsed => k.is_active
    /\ (auth.pc = "done" /\ ~HasBearer) =>
          /\ auth.nextCalls = 1
          /\ auth.statusCode = 0 =>
                /\ auth.steps = <<"select", "is_active", "update", "attach">>
                /\ \E k \in keyRows : k.is_active /\ auth.user = k.user_id
                /\ auth.authMethod = "api-key"
          /\ (auth.apiKey = "" \/ keyRows = {} \/ \E k \in keyRows : ~k.is_active) =>
                /\ auth.statusCode = 401
                /\ auth.user = NoUser
                /\ auth.touched = {}
                /\ "update" \notin Range(auth.steps)
    /\ (auth.pc = "done" /\ HasBearer /\ SubSeq(auth.authorization, 8, Len(auth.authorization)) # TokenGood) =>
          /\ auth.nextCalls = 1
          /\ auth.statusCode = 401
          /\ auth.user = NoUser
          /\ auth.steps = <<"getUser">>

\* C19 witness: a request with the key of an inactive row has been refused,
\* and the table also holds an active key whose last_used_at has been written
C19_Witness ==
    /\ auth.pc = "done"
    /\ auth.statusCode = 401
    /\ \E k \in keyRows : ~k.is_active
    /\ \E k \in api_keys : k.is_active /\ k.last_used_at # NeverUsed

(***************************************************************************)
(* Properties of the shutdown                                              *)
(***************************************************************************)
\* C20: once gracefulShutdown has been called, isShuttingDown stays true; the
\* process exits, with code 1 if a second call came while the shutdown was
\* in progress and with code 0, after the wait, if none came; and from the
\* first call on the process takes no new work: the server does not begin to
\* listen and no request is accepted.
C20_ShutdownIsFinal ==
    /\ [][proc.isShuttingDown => proc'.isShuttingDown]_vars
    /\ [][proc.isShuttingDown =>
            /\ proc'.server = "listening" => proc.server = "listening"
            /\ \A r \in DOMAIN req : req[r].pc = "idle" => req'[r].pc = "idle"]_vars
    /\ []((proc.isShuttingDown /\ proc.exitCode # NotExited) =>
            proc.exitCode = (IF proc.triggers > 1 THEN 1 ELSE 0))
    /\ (proc.isShuttingDown ~> proc.exitCode # NotExited)

====
